---- MODULE Spec2Model ----
(***************************************************************************)
(* Model of the SMB2 trigger node (nodes/Smb2Trigger/Smb2Trigger.node.ts): *)
(* the watchDirectory callback, processFileChange, the interval started by *)
(* waitForFileStability and the closeFunction returned by trigger().       *)
(*                                                                         *)
(* JavaScript runs each callback to its first await without interruption,  *)
(* so one action is one such run: a whole batch callback, the start of a   *)
(* poll tick up to `await file.open`, the rest of the tick after the open  *)
(* settles, and each segment of closeFunction between its awaits.          *)
(* The SMB server and library are the environment: when an open settles,   *)
(* with which size or with an error, and when batches arrive, is chosen    *)
(* nondeterministically.                                                   *)
(***************************************************************************)
EXTENDS Integers, Sequences, FiniteSets

(* ------------------------------ bounds -------------------------------- *)

\* Filenames are 1..NumFiles.
NumFiles == 2

\* File sizes sampled by file.open are 0..MaxSize.
MaxSize == 2

\* Action codes delivered by the server are 1..MaxAction (1..3 are mapped).
MaxAction == 4

\* A batch (response.data) holds at most MaxBatch records.
MaxBatch == 2

\* At most MaxInflight ticks of one interval are awaiting file.open at once.
MaxInflight == 2

\* The log of emitted events is kept up to MaxEmits entries.
MaxEmits == 2

\* At most MaxMonitors calls of waitForFileStability are followed.
MaxMonitors == 2

\* At most MaxRejected processFileChange calls end with a thrown emitFunc.
MaxRejected == 1

(* ------------------------- program constants -------------------------- *)

\* let previousSize = BigInt(-1)
InitialPreviousSize == -1

Filenames == 1..NumFiles
Sizes == 0..MaxSize
ActionCodes == 1..MaxAction
EventKinds == {"created", "deleted", "updated"}

\* The directory handed to watchDirectory (folderToWatch); one fixed value.
path == "dir"

\* Mutant: every unlisted code is read as a modification.
EVENT_MAP_FallsBack(action) ==
    CASE action = 1 -> "created"
      [] action = 2 -> "deleted"
      [] OTHER -> "updated"

\* const EVENT_MAP: Record<number, string>; a missing key reads undefined.
EVENT_MAP(action) ==
    CASE action = 1 -> "created"
      [] action = 2 -> "deleted"
      [] action = 3 -> "updated"
      [] OTHER -> "undefined"

VARIABLES
    event,              \* node parameter 'event' (the watched kind)
    waitForCompletion,  \* node parameter 'waitForCompletion'
    session,            \* position of trigger() / closeFunction()
    clientOpen,         \* the SMB client connection is open
    subscribed,         \* the watchDirectory subscription is active
    pendingFiles,       \* const pendingFiles = new Array<String>()
    monitors,           \* one record per waitForFileStability call, in call order
    emitted,            \* history: the payloads emitFunc accepted, in order
    emitter,            \* history: per payload, the monitor that emitted it (0: processFileChange)
    rejected,           \* processFileChange promises rejected (emitFunc threw; nobody handles them)
    openFiles           \* File objects a tick opened and has not called close() on

vars == <<event, waitForCompletion, session, clientOpen, subscribed,
          pendingFiles, monitors, emitted, emitter, rejected, openFiles>>

Records == [action : ActionCodes, filename : Filenames]

RECURSIVE SeqsUpTo(_, _)
SeqsUpTo(S, n) ==
    IF n = 0 THEN {<<>>}
    ELSE LET shorter == SeqsUpTo(S, n - 1)
         IN shorter \cup {Append(q, x) : q \in {r \in shorter : Len(r) = n - 1}, x \in S}

\* What the server may pass to the callback: an object with a data array, or
\* one without (response.data missing or not an array).
Responses ==
    {[hasData |-> TRUE, data |-> b] : b \in SeqsUpTo(Records, MaxBatch)}
        \cup {[hasData |-> FALSE, data |-> <<>>]}

\* pendingFiles.includes(filename)
Includes(files, filename) == \E i \in 1..Len(files) : files[i] = filename

(* ----------------------- waitForFileStability ------------------------- *)

\* The closure created by one call: previousSize and the interval.  state is
\* "Growing" while the interval is set, else the branch that cleared it;
\* inflight counts the interval's callbacks suspended at `await file.open`;
\* lastSample is history: the size read by the latest tick that completed
\* its open (InitialPreviousSize when none has); maxSample is history: the
\* largest size read so far.
waitForFileStability(filename, action) ==
    [filename |-> filename,
     action |-> action,
     previousSize |-> InitialPreviousSize,
     state |-> "Growing",
     inflight |-> 0,
     lastSample |-> InitialPreviousSize,
     maxSample |-> InitialPreviousSize]

\* clearInterval(interval): stops the timer; a no-op when already cleared.
ClearInterval(mon, outcome) ==
    IF mon.state = "Growing" THEN [mon EXCEPT !.state = outcome] ELSE mon

\* Mutant: previousSize follows every change of the size.
StillGrowing_AnyChange(previousSize, fileSize) == previousSize # fileSize

\* if (previousSize < file.fileSize)
StillGrowing(previousSize, fileSize) == previousSize < fileSize

\* Mutant: an empty file is never taken as stable.
SizeStable_NonEmpty(previousSize, fileSize) == previousSize = fileSize /\ fileSize > 0

\* else if (previousSize === file.fileSize)
SizeStable(previousSize, fileSize) == previousSize = fileSize

\* else if (previousSize > 0 && file.fileSize == BigInt(0))
CreationAborted(previousSize, fileSize) == previousSize > 0 /\ fileSize = 0

\* The payload emitted on stability (fileSize is previousSize.toString(), the
\* decimal rendering of the number kept here).
StableEvent(mon) ==
    [event |-> EVENT_MAP(mon.action),
     filename |-> mon.filename,
     fileSize |-> mon.previousSize,
     path |-> path]

\* The payload emitted by processFileChange.
ImmediateEvent(action, filename) ==
    [event |-> EVENT_MAP(action), filename |-> filename, path |-> path]

Monitors == 1..Len(monitors)

\* await file.open(fullPath) resolved: the File is open (file.isOpen).
Opened(files) == files + 1

\* Mutant: the finally block does not close the file.
Finally_KeepsOpen(files, isOpen) == files

\* finally { if (file && file.isOpen) { file.close() } }
Finally(files, isOpen) == IF isOpen THEN files - 1 ELSE files

\* A callback resumes after its open resolved with size fileSize (history
\* fields included).
Sampled(mon, fileSize) ==
    [mon EXCEPT !.inflight = @ - 1,
                !.lastSample = fileSize,
                !.maxSample = IF fileSize > @ THEN fileSize ELSE @]

\* The timer fires: the callback creates a File and suspends at file.open.
TickStart(m) ==
    /\ m \in Monitors
    /\ monitors[m].state = "Growing"
    /\ monitors[m].inflight < MaxInflight
    /\ monitors' = [monitors EXCEPT ![m].inflight = @ + 1]
    /\ UNCHANGED <<event, waitForCompletion, session, clientOpen, subscribed,
                   pendingFiles, emitted, emitter, rejected, openFiles>>

\* file.open resolved with size fileSize: the rest of the callback.
TickOpened(m, fileSize) ==
    /\ m \in Monitors
    /\ monitors[m].inflight > 0
    /\ LET mon == Sampled(monitors[m], fileSize)
       IN IF StillGrowing(mon.previousSize, fileSize)
          THEN /\ monitors' = [monitors EXCEPT ![m] = [mon EXCEPT !.previousSize = fileSize]]
               /\ UNCHANGED <<emitted, emitter>>
          ELSE IF SizeStable(mon.previousSize, fileSize)
          THEN /\ Len(emitted) < MaxEmits
               /\ monitors' = [monitors EXCEPT ![m] = ClearInterval(mon, "Stable")]
               /\ emitted' = Append(emitted, StableEvent(mon))
               /\ emitter' = Append(emitter, m)
          ELSE IF CreationAborted(mon.previousSize, fileSize)
          THEN /\ monitors' = [monitors EXCEPT ![m] = ClearInterval(mon, "Aborted")]
               /\ UNCHANGED <<emitted, emitter>>
          ELSE /\ monitors' = [monitors EXCEPT ![m] = mon]
               /\ UNCHANGED <<emitted, emitter>>
    /\ openFiles' = Finally(Opened(openFiles), TRUE)
    /\ UNCHANGED <<event, waitForCompletion, session, clientOpen, subscribed,
                   pendingFiles, rejected>>

\* file.open resolved with the stable size and emitFunc throws: the interval
\* was cleared at line 54 before the call; the catch block clears it again,
\* and the finally block runs.
TickEmitThrew(m, fileSize) ==
    /\ m \in Monitors
    /\ monitors[m].inflight > 0
    /\ SizeStable(monitors[m].previousSize, fileSize)
    /\ LET mon == Sampled(monitors[m], fileSize)
       IN monitors' = [monitors EXCEPT
                         ![m] = ClearInterval(ClearInterval(mon, "Stable"), "Error")]
    /\ openFiles' = Finally(Opened(openFiles), TRUE)
    /\ UNCHANGED <<event, waitForCompletion, session, clientOpen, subscribed,
                   pendingFiles, emitted, emitter, rejected>>

\* file.open rejected: the catch block, then the finally block (the File
\* never opened).
TickOpenFailed(m) ==
    /\ m \in Monitors
    /\ monitors[m].inflight > 0
    /\ monitors' = [monitors EXCEPT
                      ![m] = ClearInterval([monitors[m] EXCEPT !.inflight = @ - 1], "Error")]
    /\ openFiles' = Finally(openFiles, FALSE)
    /\ UNCHANGED <<event, waitForCompletion, session, clientOpen, subscribed,
                   pendingFiles, emitted, emitter, rejected>>

(* ------------------------- processFileChange -------------------------- *)

\* if (EVENT_MAP[action] != event) return
KindMatches(action, watched) == EVENT_MAP(action) = watched

\* Mutant: the stability check is used whether or not waitForCompletion is set.
UseStabilityCheck_IgnoresWait(wait, watched, files, filename) ==
    watched = "created" /\ ~Includes(files, filename)

\* Mutant: the stability check is used for every watched kind.
UseStabilityCheck_AnyKind(wait, watched, files, filename) ==
    wait /\ ~Includes(files, filename)

\* if (waitForCompletion && event === 'created' && !pendingFiles.includes(filename))
UseStabilityCheck(wait, watched, files, filename) ==
    wait /\ watched = "created" /\ ~Includes(files, filename)

\* One call, run to its end: waitForFileStability returns without suspending.
\* st carries the state the call reads and writes.  When emitFunc throws, the
\* async function's promise is rejected and nothing else happens.
processFileChange(st, change, emitThrows) ==
    IF ~KindMatches(change.action, event) THEN st
    ELSE IF Includes(st.pendingFiles, change.filename) THEN st
    ELSE IF UseStabilityCheck(waitForCompletion, event, st.pendingFiles, change.filename)
    THEN [st EXCEPT !.pendingFiles = Append(@, change.filename),
                    !.monitors = Append(@, waitForFileStability(change.filename, change.action))]
    ELSE IF emitThrows
    THEN [st EXCEPT !.rejected = @ + 1]
    ELSE [st EXCEPT !.emitted = Append(@, ImmediateEvent(change.action, change.filename)),
                    !.emitter = Append(@, 0)]

\* Mutant: a plain loop that awaits each call, so the first thrown emitFunc
\* ends it.
RECURSIVE ForEach_StopsAtThrow(_, _, _, _)
ForEach_StopsAtThrow(st, data, throws, i) ==
    IF i > Len(data) THEN st
    ELSE IF i \in throws THEN processFileChange(st, data[i], TRUE)
    ELSE ForEach_StopsAtThrow(processFileChange(st, data[i], FALSE), data, throws, i + 1)

\* response.data.forEach(async (change) => await processFileChange(...)),
\* from element i on: each call is its own async function, so a rejected one
\* does not stop the loop.  throws holds the positions whose emitFunc throws.
RECURSIVE ForEach(_, _, _, _)
ForEach(st, data, throws, i) ==
    IF i > Len(data) THEN st
    ELSE ForEach(processFileChange(st, data[i], i \in throws), data, throws, i + 1)

\* The state processFileChange and the interval callbacks share.
Shared ==
    [pendingFiles |-> pendingFiles, monitors |-> monitors,
     emitted |-> emitted, emitter |-> emitter, rejected |-> rejected]

\* The positions of data whose call reaches emitFunc at line 118 (a thrown
\* emitFunc changes nothing the later calls read).
EmitCalls(st, data) ==
    {i \in 1..Len(data) :
        LET before == ForEach(st, SubSeq(data, 1, i - 1), {}, 1)
        IN /\ KindMatches(data[i].action, event)
           /\ ~Includes(before.pendingFiles, data[i].filename)
           /\ ~UseStabilityCheck(waitForCompletion, event, before.pendingFiles,
                                 data[i].filename)}

(* ------------------------------ trigger ------------------------------- *)

\* The callback handed to tree.watchDirectory; emitFunc throws for the calls
\* at the positions in throws.
OnBatch(response, throws) ==
    /\ subscribed
    /\ throws \subseteq EmitCalls(Shared, response.data)
    /\ LET after == IF response.hasData THEN ForEach(Shared, response.data, throws, 1)
                    ELSE Shared
       IN /\ Len(after.emitted) <= MaxEmits
          /\ Len(after.monitors) <= MaxMonitors
          /\ after.rejected <= MaxRejected
          /\ pendingFiles' = after.pendingFiles
          /\ monitors' = after.monitors
          /\ emitted' = after.emitted
          /\ emitter' = after.emitter
          /\ rejected' = after.rejected
    /\ UNCHANGED <<event, waitForCompletion, session, clientOpen, subscribed, openFiles>>

\* await connectToSmbServer.call(this) resolves.
Connected ==
    /\ session = "connecting"
    /\ session' = "subscribing"
    /\ clientOpen' = TRUE
    /\ UNCHANGED <<event, waitForCompletion, subscribed, pendingFiles, monitors,
                   emitted, emitter, rejected, openFiles>>

\* await tree.watchDirectory(...) resolves; closeFunction is built and returned.
Subscribed ==
    /\ session = "subscribing"
    /\ session' = "watching"
    /\ subscribed' = TRUE
    /\ UNCHANGED <<event, waitForCompletion, clientOpen, pendingFiles, monitors,
                   emitted, emitter, rejected, openFiles>>

\* Either await rejects: the catch block throws NodeApiError.
StartupFailed ==
    /\ session \in {"connecting", "subscribing"}
    /\ session' = "failed"
    /\ UNCHANGED <<event, waitForCompletion, clientOpen, subscribed, pendingFiles,
                   monitors, emitted, emitter, rejected, openFiles>>

\* closeFunction is called: pendingFiles.length = 0, then stopFunction() is
\* started and awaited.
CloseFunctionCalled ==
    /\ session = "watching"
    /\ session' = "stopping"
    /\ pendingFiles' = <<>>
    /\ UNCHANGED <<event, waitForCompletion, clientOpen, subscribed, monitors,
                   emitted, emitter, rejected, openFiles>>

\* await stopFunction() resolves; client.close() is started and awaited.
StopFunctionDone ==
    /\ session = "stopping"
    /\ session' = "closing"
    /\ subscribed' = FALSE
    /\ UNCHANGED <<event, waitForCompletion, clientOpen, pendingFiles, monitors,
                   emitted, emitter, rejected, openFiles>>

\* await client.close() resolves; closeFunction returns.
ClientCloseDone ==
    /\ session = "closing"
    /\ session' = "returned"
    /\ clientOpen' = FALSE
    /\ UNCHANGED <<event, waitForCompletion, subscribed, pendingFiles, monitors,
                   emitted, emitter, rejected, openFiles>>

Init ==
    /\ event \in EventKinds
    /\ waitForCompletion \in BOOLEAN
    /\ session = "connecting"
    /\ clientOpen = FALSE
    /\ subscribed = FALSE
    /\ pendingFiles = <<>>
    /\ monitors = <<>>
    /\ emitted = <<>>
    /\ emitter = <<>>
    /\ rejected = 0
    /\ openFiles = 0

Next ==
    \/ Connected
    \/ Subscribed
    \/ StartupFailed
    \/ \E response \in Responses :
          \E throws \in SUBSET (1..Len(response.data)) : OnBatch(response, throws)
    \/ \E m \in Monitors : TickStart(m)
    \/ \E m \in Monitors, fileSize \in Sizes : TickOpened(m, fileSize)
    \/ \E m \in Monitors, fileSize \in Sizes : TickEmitThrew(m, fileSize)
    \/ \E m \in Monitors : TickOpenFailed(m)
    \/ CloseFunctionCalled
    \/ StopFunctionDone
    \/ ClientCloseDone

Spec == Init /\ [][Next]_vars

(* ------------------------------ claims -------------------------------- *)

\* The number of payloads emitted by monitor m (m = 0: by processFileChange).
EmitsOf(m) == Cardinality({i \in 1..Len(emitter) : emitter[i] = m})

\* The latest monitor started for its filename.
Latest(m) ==
    ~\E n \in Monitors : n > m /\ monitors[n].filename = monitors[m].filename

\* C1: a monitor started for one 'created' record emits at most one event
\* over its whole life, whatever the interleaving of its ticks, and a record
\* routed to stability tracking (watching 'created' with waitForCompletion)
\* is never emitted immediately by processFileChange.
C1_MonitorEmitsAtMostOnce ==
    /\ \A m \in Monitors : EmitsOf(m) <= 1
    /\ (waitForCompletion /\ event = "created") => EmitsOf(0) = 0

\* C2: once closeFunction has returned, no event is emitted any more.
C2_NoEmitAfterTeardown ==
    [][session = "returned" => emitted' = emitted]_vars

\* C3: once closeFunction has returned, no monitor starts another poll tick
\* (no further file.open is attempted).
C3_NoTickAfterTeardown ==
    [][session = "returned" =>
          \A m \in Monitors : monitors'[m].inflight <= monitors[m].inflight]_vars

\* C4: when the monitor for filename f has reached a terminal state (Stable,
\* Aborted or Error) and no newer monitor for f was started, f is not in
\* pendingFiles.
C4_TerminalLeavesPendingSet ==
    \A m \in Monitors :
        (monitors[m].state # "Growing" /\ Latest(m))
            => ~Includes(pendingFiles, monitors[m].filename)

\* C5: until closeFunction has returned, at most one monitor per filename has
\* its interval still set.
C5_OneActiveMonitorPerFile ==
    session # "returned" =>
        \A f \in Filenames :
            Cardinality({m \in Monitors : /\ monitors[m].filename = f
                                          /\ monitors[m].state = "Growing"}) <= 1

\* C6: a monitor emits only on a tick whose sampled size equals the size
\* sampled by the tick before it: never on its first tick, never when the
\* sample differs from the preceding one, and the emitted fileSize is the
\* size sampled on the emitting tick.  Stated for the ticks of a monitor
\* whose interval is still set, so that a tick left in flight by an earlier
\* clearInterval is not what refutes it.
C6_EmitOnlyOnRepeatedSample ==
    [][\A m \in Monitors :
          (/\ monitors[m].state = "Growing"
           /\ Len(emitter') > Len(emitter)
           /\ emitter'[Len(emitter')] = m)
              => /\ monitors[m].lastSample # InitialPreviousSize
                 /\ monitors'[m].lastSample = monitors[m].lastSample
                 /\ emitted'[Len(emitted')].fileSize = monitors'[m].lastSample]_vars

\* C7: whenever a tick of a Growing monitor samples the same size as the tick
\* before it, the monitor becomes Stable on that tick (its interval is
\* cleared) and emits.
C7_RepeatedSampleMeansStable ==
    [][\A m \in Monitors, s \in Sizes :
          (monitors[m].state = "Growing" /\ monitors[m].lastSample = s /\ TickOpened(m, s))
              => /\ monitors'[m].state = "Stable"
                 /\ Len(emitted') = Len(emitted) + 1]_vars

\* C8: a tick of a Growing monitor that samples 0 after a previous size
\* greater than 0 makes the monitor Aborted, and an Aborted monitor never
\* emits, on that tick or on any later or still in-flight tick.
C8_AbortedNeverEmits ==
    [][\A m \in Monitors :
          /\ (monitors[m].state = "Growing" /\ monitors[m].previousSize > 0 /\ TickOpened(m, 0))
                => monitors'[m].state = "Aborted" /\ emitted' = emitted
          /\ monitors[m].state = "Aborted"
                => ~(Len(emitter') > Len(emitter) /\ emitter'[Len(emitter')] = m)]_vars

\* C9: a tick of a Growing monitor whose file.open fails makes the monitor
\* Error, and a monitor in Error never emits, whatever tick was still in
\* flight when the open failed.
C9_ErrorNeverEmits ==
    [][\A m \in Monitors :
          /\ (monitors[m].state = "Growing" /\ TickOpenFailed(m))
                => monitors'[m].state = "Error" /\ emitted' = emitted
          /\ monitors[m].state = "Error"
                => ~(Len(emitter') > Len(emitter) /\ emitter'[Len(emitter')] = m)]_vars

\* C10: once closeFunction has returned, pendingFiles is empty.
C10_PendingEmptyAfterTeardown ==
    session = "returned" => pendingFiles = <<>>

\* C11: a record whose action code is not 1, 2 or 3 is dropped by
\* processFileChange: nothing is emitted, no monitor is started, pendingFiles
\* is unchanged and no promise is rejected, whatever the watched kind and
\* waitForCompletion are.
C11_UnmappedRecordDropped ==
    \A change \in Records :
        change.action \notin {1, 2, 3}
            => \A emitThrows \in BOOLEAN :
                   processFileChange(Shared, change, emitThrows) = Shared

\* A state with a pending filename in which a record for another filename f
\* is dropped when its code is unmapped, although a mapped code for f acts.
C11_Witness ==
    /\ subscribed
    /\ pendingFiles # <<>>
    /\ \E change \in Records, mapped \in Records :
          /\ change.action \notin {1, 2, 3}
          /\ mapped.filename = change.filename
          /\ processFileChange(Shared, change, FALSE) = Shared
          /\ processFileChange(Shared, mapped, FALSE) # Shared

\* What processFileChange leaves behind when it emits the payload at once.
EmittedAtOnce(st, payload) ==
    [st EXCEPT !.emitted = Append(@, payload), !.emitter = Append(@, 0)]

\* C12: watching 'created' with waitForCompletion = false, every 'created'
\* record is emitted during dispatch as {event: created, filename, path}
\* with no fileSize, no monitor is ever started and pendingFiles stays empty.
C12_CreatedEmittedAtOnce ==
    (event = "created" /\ ~waitForCompletion)
        => /\ pendingFiles = <<>>
           /\ monitors = <<>>
           /\ \A f \in Filenames :
                 processFileChange(Shared, [action |-> 1, filename |-> f], FALSE)
                     = EmittedAtOnce(Shared, [event |-> "created", filename |-> f,
                                              path |-> path])

\* A 'created' record has been dispatched without waitForCompletion: its
\* payload, with no fileSize, is in the log.
C12_Witness ==
    /\ event = "created"
    /\ ~waitForCompletion
    /\ emitted # <<>>
    /\ emitter[1] = 0
    /\ emitted[1].event = "created"
    /\ DOMAIN emitted[1] = {"event", "filename", "path"}

\* The action code the server sends for the watched kind.
WatchedCode == CHOOSE action \in 1..3 : EVENT_MAP(action) = event

\* C13: watching 'updated' or 'deleted', every record of the watched kind is
\* emitted at once, whatever was dispatched before for the same filename:
\* nothing is ever pending and no monitor is ever started.
C13_NoDeduplication ==
    event \in {"updated", "deleted"}
        => /\ pendingFiles = <<>>
           /\ monitors = <<>>
           /\ \A f \in Filenames :
                 processFileChange(Shared, [action |-> WatchedCode, filename |-> f], FALSE)
                     = EmittedAtOnce(Shared, [event |-> event, filename |-> f,
                                              path |-> path])

\* Two 'updated' records for one filename have both been emitted, with
\* waitForCompletion set.
C13_Witness ==
    /\ event = "updated"
    /\ waitForCompletion
    /\ Len(emitted) = 2
    /\ emitted[1] = emitted[2]
    /\ emitter = <<0, 0>>

\* The payloads of the records of data at the positions in keep, in order.
RECURSIVE PayloadsAt(_, _, _)
PayloadsAt(data, keep, i) ==
    IF i > Len(data) THEN <<>>
    ELSE (IF i \in keep
          THEN <<[event |-> EVENT_MAP(data[i].action), filename |-> data[i].filename,
                  path |-> path]>>
          ELSE <<>>) \o PayloadsAt(data, keep, i + 1)

\* C14: the records of one batch are processed independently: whichever
\* calls end with a thrown emitFunc, every other record of the batch is
\* skipped, tracked or emitted exactly as when no call throws; only the
\* payloads of the throwing calls are missing, each leaving one rejected
\* promise.
C14_RecordsIndependent ==
    \A response \in Responses :
        LET calls == EmitCalls(Shared, response.data)
            clean == ForEach(Shared, response.data, {}, 1)
        IN \A throws \in SUBSET calls :
              LET after == ForEach(Shared, response.data, throws, 1)
              IN /\ after.pendingFiles = clean.pendingFiles
                 /\ after.monitors = clean.monitors
                 /\ clean.emitted = emitted \o PayloadsAt(response.data, calls, 1)
                 /\ after.emitted = emitted \o PayloadsAt(response.data, calls \ throws, 1)
                 /\ after.rejected = rejected + Cardinality(throws)

\* emitFunc has thrown for one call and accepted another: the state a batch
\* of two records leaves when the call for the first one throws.
C14_Witness ==
    /\ session = "watching"
    /\ rejected = 1
    /\ Len(emitted) = 1
    /\ emitter = <<0>>

\* C15: when startup fails, while connecting or while subscribing, no
\* partial session is left: no subscription is active and no connection is
\* open.
C15_NoPartialSession ==
    session = "failed" => (~subscribed /\ ~clientOpen)

\* C16: a 'created' record for a filename whose latest monitor has reached a
\* terminal state is not skipped as a duplicate: dispatching it starts a new
\* monitor.
C16_TerminalFileTrackedAgain ==
    (subscribed /\ event = "created" /\ waitForCompletion)
        => \A m \in Monitors :
              (Latest(m) /\ monitors[m].state # "Growing")
                  => LET after == processFileChange(
                                      Shared,
                                      [action |-> 1, filename |-> monitors[m].filename],
                                      FALSE)
                     IN Len(after.monitors) = Len(monitors) + 1

\* C17: every tick calls close() on the File it opened before it finishes,
\* on every branch: between callbacks no File opened by a tick is left open.
C17_TickClosesItsFile ==
    openFiles = 0

\* One monitor finished a tick in which emitFunc threw after the open, and
\* another finished a tick whose smaller, non-zero size matched no branch.
C17_Witness ==
    \E m \in Monitors, n \in Monitors :
        /\ monitors[m].state = "Stable"
        /\ EmitsOf(m) = 0
        /\ monitors[m].inflight = 0
        /\ monitors[n].state = "Growing"
        /\ monitors[n].inflight = 0
        /\ monitors[n].lastSample > 0
        /\ monitors[n].lastSample < monitors[n].previousSize
        /\ openFiles = 0

\* C18: previousSize of a monitor never decreases: it changes only to a
\* sampled size strictly greater than its value, so after every step it is
\* the largest size the monitor has sampled so far.
C18_PreviousSizeIsLargestSample ==
    [][\A m \in Monitors :
          /\ monitors'[m].previousSize >= monitors[m].previousSize
          /\ monitors'[m].previousSize # monitors[m].previousSize
                => /\ monitors'[m].previousSize = monitors'[m].lastSample
                   /\ monitors'[m].previousSize > monitors[m].previousSize
          /\ monitors'[m].previousSize = monitors'[m].maxSample]_vars

\* A monitor whose latest sample is below previousSize: previousSize is not
\* the size sampled by the preceding tick.
C18_Witness ==
    \E m \in Monitors :
        /\ monitors[m].lastSample # InitialPreviousSize
        /\ monitors[m].lastSample < monitors[m].previousSize
        /\ monitors[m].previousSize = monitors[m].maxSample

\* C19: an empty file that stays empty is reported: the first tick of a
\* Growing monitor that samples 0 records previousSize = 0 and emits nothing;
\* a tick that then samples 0 again makes the monitor Stable and emits its
\* one event, with fileSize 0; and a Growing monitor becomes Aborted only
\* from a previousSize greater than 0.
C19_EmptyFileReported ==
    [][\A m \in Monitors :
          /\ (/\ monitors[m].state = "Growing"
              /\ monitors[m].previousSize = InitialPreviousSize
              /\ TickOpened(m, 0))
                => /\ monitors'[m].previousSize = 0
                   /\ monitors'[m].state = "Growing"
                   /\ emitted' = emitted
          /\ (/\ monitors[m].state = "Growing"
              /\ monitors[m].previousSize = 0
              /\ TickOpened(m, 0))
                => /\ monitors'[m].state = "Stable"
                   /\ emitted' = Append(emitted, [event |-> "created",
                                                  filename |-> monitors[m].filename,
                                                  fileSize |-> 0,
                                                  path |-> path])
                   /\ emitter' = Append(emitter, m)
                   /\ EmitsOf(m) = 0
          /\ (monitors[m].state = "Growing" /\ monitors'[m].state = "Aborted")
                => monitors[m].previousSize > 0]_vars

\* A monitor that sampled only 0 is Stable and has emitted one event, with
\* fileSize 0.
C19_Witness ==
    \E m \in Monitors :
        /\ monitors[m].state = "Stable"
        /\ monitors[m].maxSample = 0
        /\ EmitsOf(m) = 1
        /\ \E i \in 1..Len(emitted) : emitter[i] = m /\ emitted[i].fileSize = 0

====
